---- MODULE Spec2Model ----
(***************************************************************************)
(* Conversation-state core of the HVAC intake voice agent                  *)
(* (src/pipecat-agent/bot.py): the CallState accumulator, the four         *)
(* function-call handlers, the reconciliation sequence                     *)
(* extract_from_context and the persistence dispatcher save_call_data, as  *)
(* run_bot drives them from the disconnect handler and from the            *)
(* pipeline-end path.                                                      *)
(*                                                                         *)
(* Both termination flows are coroutines on one asyncio event loop: a flow *)
(* runs without interruption from one suspension point (an await on the    *)
(* extraction provider, the summary provider, the HTTP POST or             *)
(* task.cancel) to the next, so each action below is one such block.       *)
(*                                                                         *)
(* Strings are abstracted to a few representative values; a message or     *)
(* turn content is "" or a non-empty token.  The extraction provider's     *)
(* answer is drawn from ExtractionResults; answers whose "fields" entry is *)
(* not a JSON object are not drawn.                                        *)
(***************************************************************************)
EXTENDS Integers, Sequences, FiniteSets, TLC

\* Bound on the number of live events (handler calls, add_turn calls and
\* context messages) of one call session.
MaxOps == 2

\* Python's None, and the marker of a key that a dict does not hold.
NoneV == "None"
Absent == "<absent>"

\* Python truthiness of an optional string.
Truthy(v) == v # NoneV /\ v # Absent /\ v # ""

EmptyMap == [k \in {} |-> ""]

\* dict.get(k) and dict.get(k, default) on a string-keyed mapping.
DictGet(d, k) == IF k \in DOMAIN d THEN d[k] ELSE NoneV
DictGetOr(d, k, default) == IF k \in DOMAIN d THEN d[k] ELSE default

----------------------------------------------------------------------------
\* Field schema registry

DESIGN_FIELDS ==
  << [key |-> "buildingType", label |-> "Building Type", required |-> TRUE],
     [key |-> "buildingSize", label |-> "Building Size (sq ft)", required |-> TRUE],
     [key |-> "location", label |-> "Location", required |-> TRUE],
     [key |-> "projectGoals", label |-> "Project Goals", required |-> TRUE],
     [key |-> "timeline", label |-> "Timeline", required |-> TRUE],
     [key |-> "budget", label |-> "Budget Range", required |-> FALSE],
     [key |-> "existingSystem", label |-> "Existing System", required |-> FALSE],
     [key |-> "specialRequirements", label |-> "Special Requirements", required |-> FALSE] >>

SERVICE_FIELDS ==
  << [key |-> "systemType", label |-> "System Type", required |-> TRUE],
     [key |-> "systemAge", label |-> "System Age", required |-> TRUE],
     [key |-> "symptoms", label |-> "Symptoms/Issue", required |-> TRUE],
     [key |-> "urgency", label |-> "Urgency Level", required |-> TRUE],
     [key |-> "location", label |-> "Location", required |-> TRUE],
     [key |-> "siteConstraints", label |-> "Site Constraints", required |-> FALSE],
     [key |-> "makeModel", label |-> "Make and Model", required |-> FALSE] >>

QUOTE_FIELDS ==
  << [key |-> "projectScope", label |-> "Project Scope", required |-> TRUE],
     [key |-> "buildingType", label |-> "Building Type", required |-> TRUE],
     [key |-> "buildingSize", label |-> "Building Size (sq ft)", required |-> TRUE],
     [key |-> "location", label |-> "Location", required |-> TRUE],
     [key |-> "existingSystem", label |-> "Existing System", required |-> FALSE],
     [key |-> "timeline", label |-> "Timeline", required |-> FALSE],
     [key |-> "budget", label |-> "Budget Range", required |-> FALSE] >>

CALL_TYPE_FIELDS ==
  [design |-> DESIGN_FIELDS, service |-> SERVICE_FIELDS, quote |-> QUOTE_FIELDS]

\* CALL_TYPE_FIELDS.get(call_type, [])
FieldsFor(call_type) ==
  IF call_type \in DOMAIN CALL_TYPE_FIELDS THEN CALL_TYPE_FIELDS[call_type] ELSE <<>>

FieldKeys(fields) == {fields[i].key : i \in 1..Len(fields)}

\* The system prompt, by the variant build_system_prompt renders.
build_system_prompt(call_type) ==
  IF Truthy(call_type) /\ call_type \in DOMAIN CALL_TYPE_FIELDS
    THEN CASE call_type = "design" -> "prompt:design"
           [] call_type = "service" -> "prompt:service"
           [] OTHER -> "prompt:quote"
    ELSE "prompt:classify"

\* The lines "- key: label" of a checklist of the prompt.
ChecklistLines(fields) ==
  [i \in 1..Len(fields) |-> [key |-> fields[i].key, label |-> fields[i].label]]

\* A prompt whose REQUIRED checklist is rendered from the whole field list.
PromptChecklistsAllRequired(call_type) ==
  IF Truthy(call_type) /\ call_type \in DOMAIN CALL_TYPE_FIELDS
    THEN LET fields == CALL_TYPE_FIELDS[call_type] IN
         [call_type |-> call_type,
          required |-> ChecklistLines(fields),
          optional |-> ChecklistLines(SelectSeq(fields, LAMBDA f : ~f.required))]
    ELSE [call_type |-> NoneV, required |-> << >>, optional |-> << >>]

\* The fields_section of the prompt: the call type it names and its REQUIRED
\* and OPTIONAL checklists; the classification variant renders neither.
PromptChecklists(call_type) ==
  IF Truthy(call_type) /\ call_type \in DOMAIN CALL_TYPE_FIELDS
    THEN LET fields == CALL_TYPE_FIELDS[call_type] IN
         [call_type |-> call_type,
          required |-> ChecklistLines(SelectSeq(fields, LAMBDA f : f.required)),
          optional |-> ChecklistLines(SelectSeq(fields, LAMBDA f : ~f.required))]
    ELSE [call_type |-> NoneV, required |-> << >>, optional |-> << >>]

\* The system message that carries the prompt.
SystemPrompt(call_type) ==
  [role |-> "system", content |-> build_system_prompt(call_type),
   checklists |-> PromptChecklists(call_type)]

----------------------------------------------------------------------------
\* Inputs

Flows == {"disc", "main"}

\* classify_call without call_type is classified "general" by the handler's default.
ClassifyArgs ==
  { EmptyMap } \cup
  { [k \in {"call_type"} |-> t] : t \in {"design", "service", "quote", "emergency"} }

IntakeArgs ==
  { [k \in {"fields"} |-> EmptyMap],
    [k \in {"fields"} |-> ("buildingType" :> "office")],
    [k \in {"fields"} |-> ("buildingType" :> "" @@ "location" :> "Vancouver")],
    [k \in {"fields"} |-> ("notes" :> "call back after five")],
    [k \in {"fields"} |-> ("buildingType" :> "office" @@ "buildingSize" :> "5000"
                            @@ "location" :> "Vancouver" @@ "projectGoals" :> "retrofit"
                            @@ "timeline" :> "spring")] }

CallerArgs ==
  { EmptyMap,
    ("name" :> "Ann"),
    ("name" :> "" @@ "email" :> "ann@example.com" @@ "address" :> "1 Main St") }

CompleteArgs == { EmptyMap, ("summary" :> "live summary") }

TurnArgs ==
  { [role |-> "caller", content |-> "hello", extracted_data |-> NoneV],
    [role |-> "agent", content |-> "noted", extracted_data |-> "dict:{k}"] }

ContextMessages ==
  { [role |-> "user", content |-> "text"],
    [role |-> "user", content |-> ""],
    [role |-> "assistant", content |-> "text"],
    [role |-> "tool", content |-> "text"] }

\* What post_call_extraction can return: None (provider error or unparsable
\* text), a truthy JSON value that is no object, or a non-empty JSON object.
\* (A falsy JSON value fails the "if extracted:" test as None does.)
NoResult ==
  [kind |-> "none", hasFields |-> FALSE, fields |-> EmptyMap, summary |-> Absent,
   callerName |-> Absent, callerEmail |-> Absent, callerAddress |-> Absent,
   callType |-> Absent]

ExtractionResults ==
  { [NoResult EXCEPT !.kind = "null"],
    [NoResult EXCEPT !.kind = "nondict"],
    [kind |-> "dict", hasFields |-> TRUE, fields |-> ("location" :> "Burnaby"),
     summary |-> "extracted summary", callerName |-> "Bob", callerEmail |-> NoneV,
     callerAddress |-> Absent, callType |-> "service"],
    [kind |-> "dict", hasFields |-> TRUE, fields |-> ("buildingType" :> ""),
     summary |-> NoneV, callerName |-> "", callerEmail |-> "bob@example.com",
     callerAddress |-> "2 Side St", callType |-> "unknown"],
    [kind |-> "dict", hasFields |-> FALSE, fields |-> EmptyMap,
     summary |-> Absent, callerName |-> "Bob", callerEmail |-> Absent,
     callerAddress |-> Absent, callType |-> Absent] }

SummaryResults == { NoneV, "generated summary" }

PostOutcomes == { "200", "non200", "exception" }

----------------------------------------------------------------------------
VARIABLES
  call_state,    \* the CallState instance of the session
  messages,      \* context.messages
  connected,     \* on_client_connected has run
  pipeline,      \* "running" | "ended": whether runner.run(task) can still be in progress
  pc,            \* per termination flow: the await it is suspended at
  extracted,     \* the last value post_call_extraction returned
  params,        \* the last function call: name, arguments and its number in the session
  response,      \* what the last handler passed to result_callback
  ops,           \* live events so far
  seqStarts,     \* extract_from_context invocations
  extractCalls,  \* post_call_extraction invocations
  saveCalls,     \* per flow: save_call_data invocations
  posts,         \* session.post attempts
  delivery,      \* outcome of the last attempt
  endBlank,      \* the first reconciliation found no intake value and a non-empty transcript
  backfillRuns,  \* how often step 1 of extract_from_context entered its backfill loop
  history        \* the type classify_call last set; whether an extraction result replaced intake_data

vars == << call_state, messages, connected, pipeline, pc, extracted, params, response,
           ops, seqStarts, extractCalls, saveCalls, posts, delivery, endBlank, backfillRuns, history >>

\* CallState.__init__ as bot() calls it
CallStateInit(call_type, caller_name) ==
  [ call_type |-> call_type,
    caller_name |-> caller_name,
    caller_email |-> NoneV,
    caller_address |-> NoneV,
    intake_data |-> EmptyMap,
    summary |-> NoneV,
    turns |-> <<>>,
    is_complete |-> FALSE,
    turn_counter |-> 0,
    saved |-> FALSE ]

Init ==
  /\ \E ct \in {NoneV, "design"} :
       /\ call_state = CallStateInit(ct, IF ct = NoneV THEN NoneV ELSE "Ann")
       /\ messages = << SystemPrompt(ct) >>
  /\ connected = FALSE
  /\ pipeline = "running"
  /\ pc = [p \in Flows |-> IF p = "disc" THEN "idle" ELSE "running"]
  /\ extracted = NoResult
  /\ params = [fn |-> "none", arguments |-> EmptyMap, id |-> 0]
  /\ response = [kind |-> "none"]
  /\ ops = 0
  /\ seqStarts = 0
  /\ extractCalls = 0
  /\ saveCalls = [p \in Flows |-> 0]
  /\ posts = 0
  /\ delivery = "none"
  /\ endBlank = FALSE
  /\ backfillRuns = 0
  /\ history = [classified |-> NoneV, replaced |-> FALSE]

termVars == << pc, extracted, seqStarts, extractCalls, saveCalls, posts,
               delivery, endBlank, backfillRuns >>

----------------------------------------------------------------------------
\* CallState.add_turn and the function-call handlers

\* json.dumps(extracted_data) if extracted_data else None
ExtractedDataJson(extracted_data) ==
  IF extracted_data = "dict:{k}" THEN "json:{k}" ELSE NoneV

add_turn(cs, role, content, extracted_data) ==
  LET n == cs.turn_counter + 1 IN
  [cs EXCEPT !.turn_counter = n,
             !.turns = Append(@, [role |-> role, content |-> content, turnNumber |-> n,
                                  extractedData |-> ExtractedDataJson(extracted_data)])]

\* A seeding loop over the required fields only.
SeedIntakeRequiredOnly(intake_data, fields) ==
  [k \in DOMAIN intake_data \cup FieldKeys(SelectSeq(fields, LAMBDA f : f.required)) |->
     IF k \in DOMAIN intake_data THEN intake_data[k] ELSE ""]

\* A seeding loop without the "not in call_state.intake_data" test.
SeedIntakeResetting(intake_data, fields) ==
  [k \in DOMAIN intake_data \cup FieldKeys(fields) |->
     IF k \in FieldKeys(fields) THEN "" ELSE intake_data[k]]

\* A seeding loop that runs only while intake_data is still empty.
SeedIntakeWhenEmpty(intake_data, fields) ==
  IF DOMAIN intake_data = {} THEN [k \in FieldKeys(fields) |-> ""] ELSE intake_data

\* Pre-seeding of intake_data at classification.
SeedIntake(intake_data, fields) ==
  [k \in DOMAIN intake_data \cup FieldKeys(fields) |->
     IF k \in DOMAIN intake_data THEN intake_data[k] ELSE ""]

\* A store loop without the "if value:" test.
StoreFieldsUnconditional(intake_data, fields) ==
  [k \in DOMAIN intake_data \cup DOMAIN fields |->
     IF k \in DOMAIN fields THEN fields[k] ELSE intake_data[k]]

\* A store loop that accepts only keys intake_data already holds.
StoreFieldsKnownKeysOnly(intake_data, fields) ==
  [k \in DOMAIN intake_data |->
     IF k \in DOMAIN fields /\ Truthy(fields[k]) THEN fields[k] ELSE intake_data[k]]

\* The store loop of handle_update_intake.
StoreFields(intake_data, fields) ==
  [k \in DOMAIN intake_data \cup {j \in DOMAIN fields : Truthy(fields[j])} |->
     IF k \in DOMAIN fields /\ Truthy(fields[k]) THEN fields[k] ELSE intake_data[k]]

\* The progress status handle_update_intake returns.
IntakeStatus(cs, fields) ==
  LET all_fields == FieldsFor(cs.call_type)
      required == SelectSeq(all_fields, LAMBDA f : f.required)
      collected_required == SelectSeq(required, LAMBDA f : Truthy(DictGet(cs.intake_data, f.key)))
      remaining == SelectSeq(all_fields, LAMBDA f : ~Truthy(DictGet(cs.intake_data, f.key)))
  IN [kind |-> "status",
      updated |-> Cardinality(DOMAIN fields),
      collected |-> Len(collected_required),
      required |-> Len(required),
      still_needed |-> [i \in 1..Len(remaining) |-> remaining[i].label],
      all_collected |-> remaining = <<>>]

Live == connected /\ pipeline = "running" /\ ops < MaxOps

on_client_connected ==
  /\ ~connected
  /\ pipeline = "running"
  /\ connected' = TRUE
  /\ messages' = Append(messages, [role |-> "system", content |-> "text"])
  /\ UNCHANGED << call_state, pipeline, params, response, ops, history >>
  /\ UNCHANGED termVars

\* The aggregators of the pipeline append the conversation to the context.
AddMessage ==
  /\ Live
  /\ \E m \in ContextMessages : messages' = Append(messages, m)
  /\ ops' = ops + 1
  /\ UNCHANGED << call_state, connected, pipeline, params, response, history >>
  /\ UNCHANGED termVars

AddTurn ==
  /\ Live
  /\ \E a \in TurnArgs :
       call_state' = add_turn(call_state, a.role, a.content, a.extracted_data)
  /\ ops' = ops + 1
  /\ UNCHANGED << messages, connected, pipeline, params, response, history >>
  /\ UNCHANGED termVars

\* A handler without the early return of the emergency branch.
ClassifyResponseNoEmergency(call_type) ==
  [kind |-> "classified", call_type |-> call_type]

\* What handle_classify_call passes to result_callback.
ClassifyResponse(call_type) ==
  IF call_type = "emergency"
    THEN [kind |-> "emergency", callback_minutes |-> 15]
    ELSE [kind |-> "classified", call_type |-> call_type]

handle_classify_call ==
  /\ Live
  /\ \E args \in ClassifyArgs :
       LET call_type == DictGetOr(args, "call_type", "general") IN
       /\ params' = [fn |-> "classify_call", arguments |-> args, id |-> params.id + 1]
       /\ history' = [history EXCEPT !.classified = call_type]
       /\ IF call_type = "emergency"
            THEN /\ call_state' = [call_state EXCEPT !.call_type = call_type]
                 /\ messages' = messages
            ELSE /\ call_state' =
                      [call_state EXCEPT !.call_type = call_type,
                                         !.intake_data = SeedIntake(@, FieldsFor(call_type))]
                 /\ messages' = [messages EXCEPT ![1] = SystemPrompt(call_type)]
       /\ response' = ClassifyResponse(call_type)
  /\ ops' = ops + 1
  /\ UNCHANGED << connected, pipeline >>
  /\ UNCHANGED termVars

handle_update_intake ==
  /\ Live
  /\ \E args \in IntakeArgs :
       LET fields == DictGetOr(args, "fields", EmptyMap)
           cs == [call_state EXCEPT !.intake_data = StoreFields(@, fields)]
       IN /\ params' = [fn |-> "update_intake_fields", arguments |-> args, id |-> params.id + 1]
          /\ call_state' = cs
          /\ response' = IntakeStatus(cs, fields)
  /\ ops' = ops + 1
  /\ UNCHANGED << messages, connected, pipeline, history >>
  /\ UNCHANGED termVars

\* Assignments without the "if args.get(...)" tests.
UpdateCallerUnconditional(cs, args) ==
  [cs EXCEPT
     !.caller_name = DictGetOr(args, "name", NoneV),
     !.caller_email = DictGetOr(args, "email", NoneV),
     !.caller_address = DictGetOr(args, "address", NoneV)]

\* The three assignments of handle_update_caller.
UpdateCaller(cs, args) ==
  [cs EXCEPT
     !.caller_name = IF Truthy(DictGet(args, "name")) THEN args["name"] ELSE @,
     !.caller_email = IF Truthy(DictGet(args, "email")) THEN args["email"] ELSE @,
     !.caller_address = IF Truthy(DictGet(args, "address")) THEN args["address"] ELSE @]

handle_update_caller ==
  /\ Live
  /\ \E args \in CallerArgs :
       /\ params' = [fn |-> "update_caller_info", arguments |-> args, id |-> params.id + 1]
       /\ call_state' = UpdateCaller(call_state, args)
  /\ response' = [kind |-> "caller_updated"]
  /\ ops' = ops + 1
  /\ UNCHANGED << messages, connected, pipeline, history >>
  /\ UNCHANGED termVars

\* A completion that is granted only when no field of the call type is missing.
CompleteIntakeWhenCollected(cs, args) ==
  [cs EXCEPT !.summary = DictGetOr(args, "summary", ""),
             !.is_complete = \A i \in 1..Len(FieldsFor(cs.call_type)) :
                               Truthy(DictGet(cs.intake_data, FieldsFor(cs.call_type)[i].key))]

\* The two assignments of handle_complete_intake.
CompleteIntake(cs, args) ==
  [cs EXCEPT !.summary = DictGetOr(args, "summary", ""), !.is_complete = TRUE]

handle_complete_intake ==
  /\ Live
  /\ \E args \in CompleteArgs :
       /\ params' = [fn |-> "complete_intake", arguments |-> args, id |-> params.id + 1]
       /\ call_state' = CompleteIntake(call_state, args)
  /\ response' = [kind |-> "closing"]
  /\ ops' = ops + 1
  /\ UNCHANGED << messages, connected, pipeline, history >>
  /\ UNCHANGED termVars

----------------------------------------------------------------------------
\* Reconciliation (extract_from_context) and persistence (save_call_data)

\* Step 1: the loop over context.messages.
RECURSIVE BackfillFrom(_, _, _, _)
BackfillFrom(msgs, i, turn_number, acc) ==
  IF i > Len(msgs) THEN acc
  ELSE LET role == msgs[i].role
           content == msgs[i].content
       IN IF ~Truthy(content) \/ role = "system"
            THEN BackfillFrom(msgs, i + 1, turn_number, acc)
          ELSE IF role = "user"
            THEN BackfillFrom(msgs, i + 1, turn_number + 1,
                   Append(acc, [role |-> "caller", content |-> content,
                                turnNumber |-> turn_number + 1, extractedData |-> NoneV]))
          ELSE IF role = "assistant"
            THEN BackfillFrom(msgs, i + 1, turn_number + 1,
                   Append(acc, [role |-> "agent", content |-> content,
                                turnNumber |-> turn_number + 1, extractedData |-> NoneV]))
          ELSE BackfillFrom(msgs, i + 1, turn_number, acc)

\* A loop that advances turn_number for every message it does not skip,
\* whatever its role.
RECURSIVE BackfillCountingEveryRole(_, _, _, _)
BackfillCountingEveryRole(msgs, i, turn_number, acc) ==
  IF i > Len(msgs) THEN acc
  ELSE LET role == msgs[i].role
           content == msgs[i].content
       IN IF ~Truthy(content) \/ role = "system"
            THEN BackfillCountingEveryRole(msgs, i + 1, turn_number, acc)
          ELSE IF role \in {"user", "assistant"}
            THEN BackfillCountingEveryRole(msgs, i + 1, turn_number + 1,
                   Append(acc, [role |-> IF role = "user" THEN "caller" ELSE "agent",
                                content |-> content, turnNumber |-> turn_number + 1,
                                extractedData |-> NoneV]))
          ELSE BackfillCountingEveryRole(msgs, i + 1, turn_number + 1, acc)

TurnBackfillCountingEveryRole(cs, msgs) ==
  IF cs.turns = <<>>
    THEN [cs EXCEPT !.turns = BackfillCountingEveryRole(msgs, 1, 0, <<>>)]
    ELSE cs

\* A step 1 that rebuilds turns from the context whatever turns holds.
TurnBackfillRebuilding(cs, msgs) ==
  [cs EXCEPT !.turns = BackfillFrom(msgs, 1, 0, << >>)]

\* A step 1 without the "if not call_state.turns" test.
TurnBackfillAppending(cs, msgs) ==
  [cs EXCEPT !.turns = @ \o BackfillFrom(msgs, 1, 0, << >>)]

\* Step 1 of extract_from_context.
TurnBackfill(cs, msgs) ==
  IF cs.turns = <<>> THEN [cs EXCEPT !.turns = BackfillFrom(msgs, 1, 0, <<>>)] ELSE cs

\* not intake_data or all(v == "" for v in intake_data.values())
IntakeBlank(intake_data) == \A k \in DOMAIN intake_data : intake_data[k] = ""

\* transcript.strip(): every turn contributes a line "Agent: ..." or
\* "Caller: ...", so the transcript is blank only when there is no turn.
TranscriptNonBlank(turns) == Len(turns) > 0

NeedsExtraction(cs) == IntakeBlank(cs.intake_data) /\ TranscriptNonBlank(cs.turns)

\* An "if extracted:" body that merges the extracted fields into intake_data.
ApplyExtractedMerging(cs, r) ==
  IF r.kind # "dict" THEN cs
  ELSE [cs EXCEPT
          !.intake_data = (IF r.hasFields THEN r.fields ELSE EmptyMap) @@ @,
          !.summary = IF r.summary = Absent THEN @ ELSE r.summary,
          !.caller_name = IF Truthy(r.callerName) THEN r.callerName ELSE @,
          !.caller_email = IF Truthy(r.callerEmail) THEN r.callerEmail ELSE @,
          !.caller_address = IF Truthy(r.callerAddress) THEN r.callerAddress ELSE @,
          !.call_type = IF ~Truthy(@) \/ @ = "unknown"
                          THEN (IF r.callType = Absent THEN @ ELSE r.callType)
                          ELSE @]

\* A step 2 without the "if extracted:" test: (extracted or {}).get(...).
ApplyExtractedUnguarded(cs, r) ==
  IF r.kind # "dict"
    THEN [cs EXCEPT !.intake_data = EmptyMap]
    ELSE [cs EXCEPT
            !.intake_data = IF r.hasFields THEN r.fields ELSE EmptyMap,
            !.summary = IF r.summary = Absent THEN @ ELSE r.summary,
            !.caller_name = IF Truthy(r.callerName) THEN r.callerName ELSE @,
            !.caller_email = IF Truthy(r.callerEmail) THEN r.callerEmail ELSE @,
            !.caller_address = IF Truthy(r.callerAddress) THEN r.callerAddress ELSE @,
            !.call_type = IF ~Truthy(@) \/ @ = "unknown"
                            THEN (IF r.callType = Absent THEN @ ELSE r.callType)
                            ELSE @]

\* Step 2 after post_call_extraction returned a value that raises nothing:
\* the body of "if extracted:".
ApplyExtracted(cs, r) ==
  IF r.kind # "dict" THEN cs
  ELSE [cs EXCEPT
          !.intake_data = IF r.hasFields THEN r.fields ELSE EmptyMap,
          !.summary = IF r.summary = Absent THEN @ ELSE r.summary,
          !.caller_name = IF Truthy(r.callerName) THEN r.callerName ELSE @,
          !.caller_email = IF Truthy(r.callerEmail) THEN r.callerEmail ELSE @,
          !.caller_address = IF Truthy(r.callerAddress) THEN r.callerAddress ELSE @,
          !.call_type = IF ~Truthy(@) \/ @ = "unknown"
                          THEN (IF r.callType = Absent THEN @ ELSE r.callType)
                          ELSE @]

\* Where a flow continues after save_call_data.
AfterSave(p) == IF p = "disc" THEN "cancel" ELSE "done"

\* A save_call_data without the "No turns to save" guard.
SaveSkipsSavedOnly(cs) == cs.saved

\* The two guards of save_call_data.
SaveSkips(cs) == cs.saved \/ cs.turns = <<>>

\* A dispatcher that clears the guard when the delivery failed.
SavedAfterPostRetrying(saved, st) == st = "200"

\* The save guard after the POST came back with status st.
SavedAfterPost(saved, st) == saved

\* A save_call_data that sets the guard only after the POST has returned.
save_call_dataGuardAfterPost(p, cs) ==
  IF SaveSkips(cs)
    THEN [cs |-> cs, pc |-> AfterSave(p), saveCall |-> 1, post |-> 0]
    ELSE [cs |-> cs, pc |-> "await_post", saveCall |-> 1, post |-> 1]

\* A save_call_data that sets the guard before it tests turns.
save_call_dataGuardFirst(p, cs) ==
  IF SaveSkips(cs)
    THEN [cs |-> [cs EXCEPT !.saved = TRUE], pc |-> AfterSave(p), saveCall |-> 1, post |-> 0]
    ELSE [cs |-> [cs EXCEPT !.saved = TRUE], pc |-> "await_post",
          saveCall |-> 1, post |-> 1]

\* save_call_data up to its await on session.post.
save_call_data(p, cs) ==
  IF SaveSkips(cs)
    THEN [cs |-> cs, pc |-> AfterSave(p), saveCall |-> 1, post |-> 0]
    ELSE [cs |-> [cs EXCEPT !.saved = TRUE], pc |-> "await_post",
          saveCall |-> 1, post |-> 1]

\* A step 3 without the "not call_state.summary" test.
SummaryBackfillAlways(p, cs) ==
  IF cs.turns # <<>>
    THEN [cs |-> cs, pc |-> "await_summary", saveCall |-> 0, post |-> 0]
    ELSE save_call_data(p, cs)

\* Step 3 up to its await on generate_summary; without one extract_from_context
\* returns and the flow goes on into save_call_data.
SummaryBackfill(p, cs) ==
  IF ~Truthy(cs.summary) /\ cs.turns # <<>>
    THEN [cs |-> cs, pc |-> "await_summary", saveCall |-> 0, post |-> 0]
    ELSE save_call_data(p, cs)

\* An extract_from_context without the try/except: the error leaves the flow.
OnExtractErrorPropagating(p, cs) ==
  [cs |-> cs, pc |-> "raised", saveCall |-> 0, post |-> 0]

\* "except Exception": the error is logged, extract_from_context returns and
\* the flow goes on into save_call_data.
OnExtractError(p, cs) == save_call_data(p, cs)

Resume(p, out) ==
  /\ call_state' = out.cs
  /\ pc' = [pc EXCEPT ![p] = out.pc]
  /\ saveCalls' = [saveCalls EXCEPT ![p] = @ + out.saveCall]
  /\ posts' = posts + out.post
  /\ delivery' = IF out.post = 1 THEN "pending" ELSE delivery

\* extract_from_context from its entry to its first await.
StartReconciliation(p) ==
  LET cs == TurnBackfill(call_state, messages) IN
  /\ seqStarts' = seqStarts + 1
  /\ backfillRuns' = IF call_state.turns = << >> THEN backfillRuns + 1 ELSE backfillRuns
  /\ endBlank' = IF seqStarts = 0 THEN NeedsExtraction(cs) ELSE endBlank
  /\ IF NeedsExtraction(cs)
       THEN /\ call_state' = cs
            /\ pc' = [pc EXCEPT ![p] = "await_extraction"]
            /\ extractCalls' = extractCalls + 1
            /\ UNCHANGED << saveCalls, posts, delivery >>
       ELSE /\ extractCalls' = extractCalls
            /\ Resume(p, SummaryBackfill(p, cs))
  /\ UNCHANGED << messages, connected, extracted, params, response, ops, history >>

on_client_disconnected ==
  /\ connected
  /\ pc["disc"] = "idle"
  /\ StartReconciliation("disc")
  /\ UNCHANGED pipeline

\* The pipeline ends without task.cancel of the disconnect handler.
PipelineEnds ==
  /\ pipeline = "running"
  /\ pipeline' = "ended"
  /\ UNCHANGED << call_state, messages, connected, params, response, ops, history >>
  /\ UNCHANGED termVars

\* runner.run(task) has returned: the tail of run_bot.
run_bot_tail ==
  /\ pipeline = "ended"
  /\ pc["main"] = "running"
  /\ StartReconciliation("main")
  /\ UNCHANGED pipeline

post_call_extraction_returns(p) ==
  /\ pc[p] = "await_extraction"
  /\ \E r \in ExtractionResults :
       /\ extracted' = r
       /\ history' = [history EXCEPT !.replaced = @ \/ r.kind = "dict"]
       /\ IF r.kind = "nondict"
            THEN Resume(p, OnExtractError(p, call_state))
            ELSE Resume(p, SummaryBackfill(p, ApplyExtracted(call_state, r)))
  /\ UNCHANGED << messages, connected, pipeline, params, response, ops,
                  seqStarts, extractCalls, endBlank, backfillRuns >>

generate_summary_returns(p) ==
  /\ pc[p] = "await_summary"
  /\ \E s \in SummaryResults :
       Resume(p, save_call_data(p, [call_state EXCEPT !.summary = s]))
  /\ UNCHANGED << messages, connected, pipeline, params, response, ops,
                  seqStarts, extractCalls, endBlank, backfillRuns, extracted, history >>

post_returns(p) ==
  /\ pc[p] = "await_post"
  /\ \E st \in PostOutcomes :
       /\ delivery' = IF st = "200" THEN "ok" ELSE "failed"
       /\ call_state' = [call_state EXCEPT !.saved = SavedAfterPost(@, st)]
  /\ pc' = [pc EXCEPT ![p] = AfterSave(p)]
  /\ UNCHANGED << messages, connected, pipeline, params, response, ops, extracted,
                  seqStarts, extractCalls, saveCalls, posts, endBlank, backfillRuns, history >>

task_cancel ==
  /\ pc["disc"] = "cancel"
  /\ pc' = [pc EXCEPT !["disc"] = "done"]
  /\ pipeline' = "ended"
  /\ UNCHANGED << call_state, messages, connected, params, response, ops, extracted,
                  seqStarts, extractCalls, saveCalls, posts, delivery,
                  endBlank, backfillRuns, history >>

Next ==
  \/ on_client_connected
  \/ AddMessage
  \/ AddTurn
  \/ handle_classify_call
  \/ handle_update_intake
  \/ handle_update_caller
  \/ handle_complete_intake
  \/ on_client_disconnected
  \/ PipelineEnds
  \/ run_bot_tail
  \/ \E p \in Flows : post_call_extraction_returns(p)
  \/ \E p \in Flows : generate_summary_returns(p)
  \/ \E p \in Flows : post_returns(p)
  \/ task_cancel

Spec == Init /\ [][Next]_vars

----------------------------------------------------------------------------
\* Properties

Started(p) == pc[p] \notin {"idle", "running"}

\* Both termination paths that were taken have run to their end.
TerminationFinished == pc["main"] = "done" /\ pc["disc"] \in {"idle", "done"}

\* A step of flow p in which post_call_extraction returns.
ExtractionReturnStep(p) == pc[p] = "await_extraction" /\ pc'[p] # "await_extraction"

\* A step in which the handler fn is called.
HandlerStep(fn) == params'.id = params.id + 1 /\ params'.fn = fn

TurnNumbersSequential(turns) == \A i \in 1..Len(turns) : turns[i].turnNumber = i

\* C1: at most one delivery attempt is ever made for a call state, also when
\* the attempt fails: a save_call_data call after a failed one posts nothing.
C1_AtMostOneDelivery == posts <= 1

C1_Witness ==
  /\ delivery = "failed"
  /\ posts = 1
  /\ saveCalls["disc"] = 1
  /\ saveCalls["main"] = 1
  /\ pc["main"] = "done"

\* C2: a save_call_data call on a call state without turns makes no delivery
\* attempt, whatever the other fields hold.
C2_NoDeliveryWithoutTurns ==
  [][\A p \in Flows :
       (saveCalls'[p] = saveCalls[p] + 1 /\ call_state'.turns = <<>>)
         => (posts' = posts /\ ~call_state'.saved)]_vars

C2_Witness ==
  /\ saveCalls["main"] = 1
  /\ call_state.turns = <<>>
  /\ call_state.is_complete
  /\ Truthy(call_state.summary)
  /\ ~IntakeBlank(call_state.intake_data)
  /\ posts = 0

\* C3: once call termination has run to its end, the
\* reconciliation-then-persistence sequence has been started exactly once.
C3_ReconciliationOnce == TerminationFinished => seqStarts = 1

\* C4: when the call ended with no intake value and a non-empty transcript,
\* post_call_extraction has been invoked exactly once by the end of the
\* termination flow.
C4_ExtractionOnce == (TerminationFinished /\ endBlank) => extractCalls = 1

\* C5: when post_call_extraction returns a JSON object, intake_data afterwards
\* is exactly the object's fields mapping: no key that was there before and
\* that the mapping lacks is left.
C5_ExtractionReplaces ==
  [][\A p \in Flows :
       (ExtractionReturnStep(p) /\ extracted'.kind = "dict")
         => LET fields == IF extracted'.hasFields THEN extracted'.fields ELSE EmptyMap IN
            /\ DOMAIN call_state'.intake_data = DOMAIN fields
            /\ \A k \in DOMAIN fields : call_state'.intake_data[k] = fields[k]]_vars

C5_Witness ==
  /\ extracted.kind = "dict"
  /\ extracted.hasFields
  /\ params.fn = "classify_call"
  /\ call_state.call_type = "design"
  /\ DOMAIN call_state.intake_data = {"location"}
  /\ call_state.intake_data["location"] = "Burnaby"

\* C6: whatever post_call_extraction returns, also a value on which step 2
\* raises, extract_from_context returns to its caller, which goes on into
\* save_call_data: a flow that has started reconciliation is suspended at
\* one of the two provider calls of reconciliation or has called
\* save_call_data, so that the call follows as soon as the provider returns.
C6_ReconciliationReachesSave ==
  \A p \in Flows :
    Started(p) => \/ pc[p] \in {"await_extraction", "await_summary"}
                  \/ saveCalls[p] = 1

C6_Witness ==
  /\ extracted.kind = "nondict"
  /\ \E p \in Flows : saveCalls[p] = 1 /\ pc[p] = "await_post"

\* C7: when post_call_extraction returns null, the step leaves intake_data,
\* call_type, caller_name, caller_email, caller_address and summary as they
\* were.
C7_NullExtractionLeavesState ==
  [][\A p \in Flows :
       (ExtractionReturnStep(p) /\ extracted'.kind = "null")
         => /\ call_state'.intake_data = call_state.intake_data
            /\ call_state'.call_type = call_state.call_type
            /\ call_state'.caller_name = call_state.caller_name
            /\ call_state'.caller_email = call_state.caller_email
            /\ call_state'.caller_address = call_state.caller_address
            /\ call_state'.summary = call_state.summary]_vars

C7_Witness ==
  /\ extracted.kind = "null"
  /\ DOMAIN call_state.intake_data # {}
  /\ \E p \in Flows : pc[p] = "await_summary"

\* C8: in every reachable state the turn numbers are 1, 2, ..., len(turns) in
\* list order.
C8_TurnNumbersSequential == TurnNumbersSequential(call_state.turns)

\* C9: reconciliation started on a call state without turns leaves turns
\* numbered 1, 2, ... without gaps, for every message history.
C9_BackfillNumbersSequential ==
  [][\A p \in Flows :
       (~Started(p) /\ Started(p)' /\ call_state.turns = <<>>)
         => TurnNumbersSequential(call_state'.turns)]_vars

C9_Witness ==
  /\ call_state.turn_counter = 0
  /\ Len(call_state.turns) = 1
  /\ call_state.turns[1].turnNumber = 1
  /\ \E i, j \in 1..Len(messages) :
       /\ i < j
       /\ messages[i] = [role |-> "tool", content |-> "text"]
       /\ messages[j].role \in {"user", "assistant"}
       /\ messages[j].content = "text"

\* C10: update_intake_fields leaves intake_data as it was at every key
\* submitted with an empty string, and stores every key submitted with a
\* non-empty value.
C10_EmptyValuesIgnored ==
  [][HandlerStep("update_intake_fields")
       => LET fields == DictGetOr(params'.arguments, "fields", EmptyMap)
              before == call_state.intake_data
              after == call_state'.intake_data
          IN \A k \in DOMAIN fields :
               IF fields[k] = ""
                 THEN /\ (k \in DOMAIN after) = (k \in DOMAIN before)
                      /\ k \in DOMAIN before => after[k] = before[k]
                 ELSE k \in DOMAIN after /\ after[k] = fields[k]]_vars

C10_Witness ==
  /\ params.fn = "update_intake_fields"
  /\ params.arguments = [k \in {"fields"} |-> ("buildingType" :> "" @@ "location" :> "Vancouver")]
  /\ DictGet(call_state.intake_data, "buildingType") = "office"
  /\ DictGet(call_state.intake_data, "location") = "Vancouver"

\* The keys of the three entries of the field registry.
RegistryKeys ==
  [design |-> {"buildingType", "buildingSize", "location", "projectGoals", "timeline",
               "budget", "existingSystem", "specialRequirements"},
   service |-> {"systemType", "systemAge", "symptoms", "urgency", "location",
                "siteConstraints", "makeModel"},
   quote |-> {"projectScope", "buildingType", "buildingSize", "location", "existingSystem",
              "timeline", "budget"}]

RegistryTypes == {"design", "service", "quote"}

\* The required fields of a call type that hold no non-empty value.
MissingRequired(call_type, intake_data) ==
  {f \in {FieldsFor(call_type)[i] : i \in 1..Len(FieldsFor(call_type))} :
     f.required /\ ~Truthy(DictGet(intake_data, f.key))}

\* C11: on a design call whose 5 required fields all hold a non-empty value,
\* the response of update_intake_fields is the "all fields collected"
\* directive and names no missing field, whatever the optional fields hold.
C11_RequiredCollectedMeansAllCollected ==
  [][(/\ HandlerStep("update_intake_fields")
      /\ call_state'.call_type = "design"
      /\ MissingRequired("design", call_state'.intake_data) = {})
       => /\ response'.kind = "status"
          /\ response'.all_collected
          /\ response'.still_needed = << >>]_vars

\* C12: when the status of update_intake_fields lists fields still needed,
\* the labels it lists are exactly those of the required fields of the active
\* call type that hold no non-empty value.
C12_StillNeededIsMissingRequired ==
  [][(/\ HandlerStep("update_intake_fields")
      /\ response'.still_needed # << >>)
       => {response'.still_needed[i] : i \in 1..Len(response'.still_needed)}
            = {f.label : f \in MissingRequired(call_state'.call_type, call_state'.intake_data)}]_vars

\* C13: classify_call with a type design, service or quote on an empty
\* intake_data leaves exactly the keys of that type's registry entry, each
\* mapped to the empty string; for design these are 8 keys.
C13_ClassifySeedsRegistryKeys ==
  [][(/\ HandlerStep("classify_call")
      /\ DictGet(params'.arguments, "call_type") \in RegistryTypes
      /\ DOMAIN call_state.intake_data = {})
       => LET t == params'.arguments["call_type"]
              after == call_state'.intake_data
          IN /\ DOMAIN after = RegistryKeys[t]
             /\ \A k \in DOMAIN after : after[k] = ""
             /\ t = "design" => Cardinality(DOMAIN after) = 8]_vars

C13_Witness ==
  /\ params.fn = "classify_call"
  /\ params.id = 1
  /\ params.arguments = [k \in {"call_type"} |-> "design"]
  /\ Cardinality(DOMAIN call_state.intake_data) = 8
  /\ \A k \in DOMAIN call_state.intake_data : call_state.intake_data[k] = ""

\* C14: classify_call keeps every key that intake_data held before the call,
\* with the value it had, also when the call changes the call type.
C14_ClassifyKeepsValues ==
  [][HandlerStep("classify_call")
       => \A k \in DOMAIN call_state.intake_data :
            /\ k \in DOMAIN call_state'.intake_data
            /\ call_state'.intake_data[k] = call_state.intake_data[k]]_vars

C14_Witness ==
  /\ params.fn = "classify_call"
  /\ params.arguments = [k \in {"call_type"} |-> "quote"]
  /\ call_state.call_type = "quote"
  /\ DictGet(call_state.intake_data, "buildingType") = "office"
  /\ DictGet(call_state.intake_data, "projectScope") = ""

\* C15: classify_call with call_type emergency sets call_type to emergency,
\* leaves intake_data as it was, and returns the response that promises a
\* callback within 15 minutes.
C15_EmergencyClassification ==
  [][(/\ HandlerStep("classify_call")
      /\ DictGet(params'.arguments, "call_type") = "emergency")
       => /\ call_state'.call_type = "emergency"
          /\ call_state'.intake_data = call_state.intake_data
          /\ response'.kind = "emergency"
          /\ response'.callback_minutes = 15]_vars

C15_Witness ==
  /\ params.fn = "classify_call"
  /\ params.arguments = [k \in {"call_type"} |-> "emergency"]
  /\ call_state.call_type = "emergency"
  /\ response = [kind |-> "emergency", callback_minutes |-> 15]
  /\ DOMAIN call_state.intake_data = {}

\* C16: in every reachable state whose call_type is emergency, intake_data
\* holds no entry.
C16_EmergencyIntakeEmpty ==
  call_state.call_type = "emergency" => DOMAIN call_state.intake_data = {}

\* C17: update_caller_info sets each of caller_name, caller_email and
\* caller_address to its argument when that argument is present and non-empty
\* and leaves it as it was otherwise, so no call clears a contact field; it
\* changes nothing else of the call state.
C17_CallerInfoOnlyNonEmpty ==
  [][HandlerStep("update_caller_info")
       => LET args == params'.arguments
              Given(k) == k \in DOMAIN args /\ args[k] \notin {"", NoneV}
          IN /\ call_state'.caller_name
                  = IF Given("name") THEN args["name"] ELSE call_state.caller_name
             /\ call_state'.caller_email
                  = IF Given("email") THEN args["email"] ELSE call_state.caller_email
             /\ call_state'.caller_address
                  = IF Given("address") THEN args["address"] ELSE call_state.caller_address
             /\ \A f \in DOMAIN call_state \ {"caller_name", "caller_email", "caller_address"} :
                  call_state'[f] = call_state[f]]_vars

C17_Witness ==
  /\ params.fn = "update_caller_info"
  /\ params.id = 2
  /\ params.arguments = ("name" :> "" @@ "email" :> "ann@example.com" @@ "address" :> "1 Main St")
  /\ call_state.caller_name = "Ann"
  /\ call_state.caller_email = "ann@example.com"

\* C18: is_complete is false at the start, a call of complete_intake sets it
\* to true whatever fields are missing, and no other step changes it: it is
\* false until complete_intake is called and true ever after.
C18_OnlyCompleteIntakeCompletes ==
  /\ ~call_state.is_complete
  /\ [][IF HandlerStep("complete_intake")
          THEN call_state'.is_complete
          ELSE call_state'.is_complete = call_state.is_complete]_vars

C18_Witness ==
  /\ call_state.is_complete
  /\ call_state.call_type = "design"
  /\ MissingRequired("design", call_state.intake_data) # {}
  /\ saveCalls["disc"] = 1

\* C19 as stated: after classify_call classified the call as design, service
\* or quote, every state with that call type holds every key of the type's
\* registry entry in intake_data.
C19_RegistryKeysPresent ==
  (history.classified \in RegistryTypes /\ call_state.call_type = history.classified)
    => RegistryKeys[history.classified] \subseteq DOMAIN call_state.intake_data

\* C19: after classify_call classified the call as design, service or quote,
\* every state with that call type in which no post-call extraction result
\* has replaced intake_data holds every key of the type's registry entry in
\* intake_data.
C19_RegistryKeysPresentUntilReplaced ==
  (/\ history.classified \in RegistryTypes
   /\ call_state.call_type = history.classified
   /\ ~history.replaced)
    => RegistryKeys[history.classified] \subseteq DOMAIN call_state.intake_data

C19_Witness ==
  /\ history = [classified |-> "service", replaced |-> FALSE]
  /\ call_state.call_type = "service"
  /\ DictGet(call_state.intake_data, "buildingType") = "office"
  /\ RegistryKeys["service"] \subseteq DOMAIN call_state.intake_data
  /\ saveCalls["main"] = 1

\* C20: a post-call extraction that returns a result leaves caller_name,
\* caller_email, caller_address and call_type as they were whenever they were
\* already set.
C20_ExtractionKeepsSetFields ==
  [][\A p \in Flows :
       (ExtractionReturnStep(p) /\ extracted'.kind = "dict")
         => /\ Truthy(call_state.caller_name)
                 => call_state'.caller_name = call_state.caller_name
            /\ Truthy(call_state.caller_email)
                 => call_state'.caller_email = call_state.caller_email
            /\ Truthy(call_state.caller_address)
                 => call_state'.caller_address = call_state.caller_address
            /\ (Truthy(call_state.call_type) /\ call_state.call_type # "unknown")
                 => call_state'.call_type = call_state.call_type]_vars

\* A step in which flow p enters extract_from_context.
StartStep(p) == pc[p] \in {"idle", "running"} /\ pc'[p] \notin {"idle", "running"}

\* A step in which flow p calls save_call_data.
SaveStep(p) == saveCalls'[p] = saveCalls[p] + 1

\* Flow p is suspended at an await of extract_from_context or save_call_data.
Suspended(p) == pc[p] \in {"await_extraction", "await_summary", "await_post"}

\* C21: update_intake_fields stores every submitted key that has a non-empty
\* value, whether or not the key is in the schema of the call type and
\* whether or not the call has been classified, and answers with the status.
C21_EveryNonEmptyKeyStored ==
  [][HandlerStep("update_intake_fields")
       => LET fields == DictGetOr(params'.arguments, "fields", EmptyMap) IN
          /\ \A k \in DOMAIN fields :
               fields[k] # ""
                 => /\ k \in DOMAIN call_state'.intake_data
                    /\ call_state'.intake_data[k] = fields[k]
          /\ response'.kind = "status"
          /\ response'.updated = Cardinality(DOMAIN fields)]_vars

C21_Witness ==
  /\ params = [fn |-> "update_intake_fields",
               arguments |-> [k \in {"fields"} |-> ("notes" :> "call back after five")],
               id |-> 1]
  /\ call_state.call_type = NoneV
  /\ history.classified = NoneV
  /\ call_state.intake_data = ("notes" :> "call back after five")

\* C22: in the prompt of a design, service or quote call every field of the
\* type's list is rendered exactly once: in the required checklist when its
\* required flag is true, in the optional checklist when it is false.
C22_ChecklistsPartitionFields ==
  LET c == messages[1].checklists IN
  c.call_type \in RegistryTypes
    => LET fields == CALL_TYPE_FIELDS[c.call_type]
           Count(lines, key) == Cardinality({i \in 1..Len(lines) : lines[i].key = key})
       IN /\ \A j \in 1..Len(fields) :
               /\ Count(c.required, fields[j].key) = IF fields[j].required THEN 1 ELSE 0
               /\ Count(c.optional, fields[j].key) = IF fields[j].required THEN 0 ELSE 1
          /\ Len(c.required) + Len(c.optional) = Cardinality(RegistryKeys[c.call_type])

C22_Witness ==
  /\ params.fn = "classify_call"
  /\ messages[1].content = "prompt:quote"
  /\ messages[1].checklists.call_type = "quote"
  /\ Len(messages[1].checklists.optional) > 0
  /\ Len(messages[1].checklists.required) + Len(messages[1].checklists.optional) = 7

\* C23: every step leaves the turns that existed before it as an unchanged
\* prefix of turns.
C23_TurnsAppendOnly ==
  [][/\ Len(call_state.turns) <= Len(call_state'.turns)
     /\ \A i \in 1..Len(call_state.turns) : call_state'.turns[i] = call_state.turns[i]]_vars

C23_Witness ==
  /\ Len(call_state.turns) = 2
  /\ call_state.turn_counter = 2
  /\ Len(messages) > 1
  /\ seqStarts = 2
  /\ saveCalls["main"] = 1

\* C24: the save guard is set in every state in which a delivery attempt is
\* in progress or has happened, whatever its outcome, and once set it is
\* never unset.
C24_GuardSetBeforeDelivery ==
  /\ [](delivery # "none" => call_state.saved)
  /\ [][call_state.saved => call_state'.saved]_vars

C24_Witness ==
  /\ delivery = "failed"
  /\ call_state.saved
  /\ pc["disc"] = "cancel"

\* C25 as stated: over both termination paths at most one delivery attempt is
\* made and the turn backfill of extract_from_context runs at most once.
C25_OneDeliveryOneBackfillRun == posts <= 1 /\ backfillRuns <= 1

\* C25: over both termination paths, interleaved at their awaits, at most one
\* delivery attempt is made and at most one run of the turn backfill appends
\* turns: a run changes turns only when turns is empty, and then appends one
\* turn for each user or assistant message with content, so no turn is
\* duplicated. A flow that starts while the other is suspended changes no turn.
C25_OneDeliveryOneEffectiveBackfill ==
  /\ [](posts <= 1)
  /\ [][\A p \in Flows :
          StartStep(p)
            => /\ call_state'.turns # call_state.turns
                    => /\ call_state.turns = << >>
                       /\ Len(call_state'.turns)
                            = Cardinality({i \in 1..Len(messages) :
                                             /\ messages[i].role \in {"user", "assistant"}
                                             /\ messages[i].content # ""})
               /\ (\E q \in Flows \ {p} : Suspended(q))
                    => call_state'.turns = call_state.turns]_vars

C25_Witness ==
  /\ pc["disc"] = "await_extraction"
  /\ pc["main"] = "await_post"
  /\ backfillRuns = 1
  /\ posts = 1
  /\ Len(call_state.turns) = 1

\* C26: after complete_intake has stored a non-empty summary, no step of the
\* call termination changes summary.
C26_LiveSummaryKept ==
  [][(/\ params.fn = "complete_intake"
      /\ Truthy(DictGet(params.arguments, "summary"))
      /\ call_state.summary = params.arguments["summary"]
      /\ params' = params)
       => call_state'.summary = call_state.summary]_vars

\* C27: a save_call_data call that is skipped because turns is empty leaves
\* the save guard unset, and a save_call_data call that finds the guard unset
\* and turns non-empty sets the guard and makes the delivery attempt.
C27_SkippedSaveLeavesGuard ==
  [][\A p \in Flows :
       (SaveStep(p) /\ ~call_state.saved)
         => IF call_state'.turns = << >>
              THEN ~call_state'.saved /\ posts' = posts /\ pc'[p] # "await_post"
              ELSE call_state'.saved /\ posts' = posts + 1 /\ pc'[p] = "await_post"]_vars

C27_Witness ==
  /\ saveCalls["disc"] = 1
  /\ pc["disc"] = "done"
  /\ pc["main"] = "await_post"
  /\ backfillRuns = 2
  /\ posts = 1

\* C28: a run of extract_from_context on a call state with at least one turn,
\* at least one non-empty intake value and a non-empty summary calls neither
\* post_call_extraction nor generate_summary and changes no field of the call
\* state (the save guard is set by the save_call_data call that follows).
C28_ReconciliationIdempotent ==
  [][\A p \in Flows :
       (/\ StartStep(p)
        /\ call_state.turns # << >>
        /\ ~IntakeBlank(call_state.intake_data)
        /\ Truthy(call_state.summary))
         => /\ [call_state' EXCEPT !.saved = call_state.saved] = call_state
            /\ extractCalls' = extractCalls
            /\ pc'[p] \notin {"await_extraction", "await_summary"}]_vars

C28_Witness ==
  /\ seqStarts = 2
  /\ extractCalls = 0
  /\ call_state.summary = "generated summary"
  /\ DictGet(call_state.intake_data, "buildingType") = "office"
  /\ Len(call_state.turns) = 1
  /\ pc["main"] = "done"

====
